---- MODULE Spec2Model ----
(***************************************************************************)
(* Model of iced_plotters (src/src/lib.rs): PlotFrame, the adapter that    *)
(* implements plotters' DrawingBackend on top of an iced canvas::Frame.    *)
(*                                                                         *)
(* The host Frame is modelled by what the adapter can observe of it and do *)
(* to it: its height and width (f32) and the sequence of fill, stroke and  *)
(* fill_text calls it has received.                                        *)
(*                                                                         *)
(* Numbers.  An f32 (or f64) value is the pair <<m, e>> standing for       *)
(* m * 2^e, in the unique form with m odd, or <<0, 0>> for zero.  Every    *)
(* `as f32` cast of the source is modelled by its rounding to a 24-bit     *)
(* significand (round to nearest, ties to even).  i32 values are integers  *)
(* in MinI32..MaxI32, and the i32 subtraction of draw_rect keeps its width.*)
(***************************************************************************)
EXTENDS Integers, Sequences, FiniteSets, TLC

VARIABLES
    frame,            \* the borrowed canvas::Frame: [height, width, ops]
    overflow_checks,  \* build profile: TRUE = overflow checks on (debug)
    calls,            \* the adapter calls made so far, with their outcome
    panicked          \* TRUE once a call has panicked (the thread unwinds)

vars == <<frame, overflow_checks, calls, panicked>>

---------------------------------------------------------------------------
(* Bounds of the model *)

\* number of adapter calls in one drawing session
MaxCalls == 2

---------------------------------------------------------------------------
(* Machine numbers *)

MaxI32 == 2147483647
MinI32 == (-MaxI32) - 1

\* number of significand bits of an f32
F32Digits == 24

RECURSIVE Pow2(_)
Pow2(n) == IF n = 0 THEN 1 ELSE 2 * Pow2(n - 1)

\* number of bits of a positive integer
RECURSIVE BitLen(_)
BitLen(n) == IF n = 0 THEN 0 ELSE 1 + BitLen(n \div 2)

\* the canonical pair of m * 2^e
RECURSIVE Canon(_, _)
Canon(m, e) ==
    IF m = 0 THEN <<0, 0>>
    ELSE IF m % 2 = 0 THEN Canon(m \div 2, e + 1)
    ELSE <<m, e>>

\* a * 2^e (a > 0) rounded to F32Digits significant bits, sign s
RoundMagnitude(s, a, e) ==
    IF BitLen(a) <= F32Digits THEN Canon(s * a, e)
    ELSE LET k    == BitLen(a) - F32Digits
             q    == a \div Pow2(k)
             r    == a % Pow2(k)
             half == Pow2(k - 1)
             up   == r > half \/ (r = half /\ q % 2 = 1)
         IN  Canon(s * (IF up THEN q + 1 ELSE q), e + k)

\* `x as f32` for an i32 or u32 x
IntToF32(x) ==
    IF x = MinI32 THEN <<-1, 31>>
    ELSE IF x < 0 THEN RoundMagnitude(-1, -x, 0)
    ELSE RoundMagnitude(1, x, 0)

\* `x as f32` for an f64 x
F64ToF32(x) ==
    IF x[1] < 0 THEN RoundMagnitude(-1, -x[1], x[2])
    ELSE RoundMagnitude(1, x[1], x[2])

\* `x as u32` for an f32 x: truncation toward zero, negatives saturate to 0.
\* (Values of 2^31 and more are not used by the model.)
F32ToU32(x) ==
    IF x[1] <= 0 THEN 0
    ELSE IF x[2] >= 0 THEN x[1] * Pow2(x[2])
    ELSE x[1] \div Pow2(-x[2])

\* i32 subtraction a - b leaves the i32 range
SubOverflows(a, b) ==
    \/ b < 0 /\ a > MaxI32 + b
    \/ b > 0 /\ a < MinI32 + b

\* two's complement a - b (what `a - b` yields without overflow checks)
WrappingSub(a, b) ==
    IF b < 0 /\ a > MaxI32 + b THEN (a + MinI32) - (b - MinI32)
    ELSE IF b > 0 /\ a < MinI32 + b THEN (a - MinI32) - (b + MinI32)
    ELSE a - b

\* the outcome of the i32 expression `a - b`: a panic in a build with overflow
\* checks when the difference leaves the range, the wrapped difference otherwise
I32Sub(a, b, checks) ==
    IF checks /\ SubOverflows(a, b) THEN [panic |-> TRUE, value |-> 0]
    ELSE [panic |-> FALSE, value |-> WrappingSub(a, b)]

---------------------------------------------------------------------------
(* The host canvas (iced) as the adapter uses it *)

Point(x, y) == [x |-> x, y |-> y]
Size(w, h) == [width |-> w, height |-> h]

PathRectangle(p, size) == [shape |-> "rectangle", origin |-> p, size |-> size]
PathLine(from, to) == [shape |-> "line", from |-> from, to |-> to]
PathCircle(center, radius) == [shape |-> "circle", center |-> center, radius |-> radius]

\* f32 quotient c / 255.0 of an 8-bit channel, by long division: s is the shift
\* that normalises the quotient, then 23 further bits and the rounding bit
RECURSIVE DivBits(_, _, _)
DivBits(mant, rem, n) ==
    IF n = 0 THEN (IF 2 * rem > 255 THEN mant + 1 ELSE mant)
    ELSE IF 2 * rem >= 255 THEN DivBits(2 * mant + 1, 2 * rem - 255, n - 1)
    ELSE DivBits(2 * mant, 2 * rem, n - 1)

RECURSIVE NormShift(_)
NormShift(c) == IF c >= 255 THEN 0 ELSE 1 + NormShift(2 * c)

ChannelOf(c) ==
    IF c = 0 THEN <<0, 0>>
    ELSE LET s == NormShift(c)
         IN  Canon(DivBits(1, c * Pow2(s) - 255, F32Digits - 1), -(s + F32Digits - 1))

\* the table of c / 255.0, c an 8-bit channel
U8ToUnit == [c \in 0..255 |-> ChannelOf(c)]

\* Color::from_rgb8(r, g, b): channels c / 255.0, opaque
FromRgb8(r, g, b) ==
    [r |-> U8ToUnit[r], g |-> U8ToUnit[g], b |-> U8ToUnit[b], a |-> <<1, 0>>]

\* (variant) the width left at Stroke::default()
StrokeDefaultWidth(color, width) ==
    [color |-> color, width |-> <<1, 0>>, line_cap |-> "Butt", line_join |-> "Miter"]

\* the Stroke literal of draw_line, draw_rect and draw_circle
Stroke(color, width) ==
    [color |-> color, width |-> width, line_cap |-> "Butt", line_join |-> "Miter"]

\* the Text literal of draw_text; the other fields are Text::default()
Text(content, size, position, color) ==
    [content |-> content, size |-> size, position |-> position, color |-> color,
     font |-> "Default", horizontal_alignment |-> "Left", vertical_alignment |-> "Top"]

\* Frame::fill, Frame::stroke, Frame::fill_text: the frame records the operation
FrameFill(f, path, color) ==
    [f EXCEPT !.ops = Append(@, [kind |-> "fill", path |-> path, color |-> color])]

FrameStroke(f, path, stroke) ==
    [f EXCEPT !.ops = Append(@, [kind |-> "stroke", path |-> path, stroke |-> stroke])]

FrameFillText(f, text) ==
    [f EXCEPT !.ops = Append(@, [kind |-> "fill_text", text |-> text])]

---------------------------------------------------------------------------
(* The charting library (plotters) as the adapter uses it *)

\* RGBAColor::rgb: the colour channels, alpha left out
Rgb(color) == <<color.r, color.g, color.b>>

Ok == [tag |-> "Ok"]
Panic == [tag |-> "panic"]
SizeResult(h, w) == [tag |-> "size", value |-> <<h, w>>]

---------------------------------------------------------------------------
(* impl DrawingBackend for PlotFrame: each method yields the frame it leaves *)
(* and what it returns                                                      *)

\* (variant) the extents in the conventional (width, height) order
get_size_width_first(f) ==
    [frame |-> f, ret |-> SizeResult(F32ToU32(f.width), F32ToU32(f.height))]

get_size(f) ==
    [frame |-> f, ret |-> SizeResult(F32ToU32(f.height), F32ToU32(f.width))]

\* (variant) preparing the surface by clearing what was drawn
ensure_prepared_clearing(f) == [frame |-> [f EXCEPT !.ops = <<>>], ret |-> Ok]

ensure_prepared(f) == [frame |-> f, ret |-> Ok]

present(f) == [frame |-> f, ret |-> Ok]

\* (variant) the colour's alpha handed over as the third channel
draw_pixel_alpha_channel(f, point, color) ==
    LET p == PathRectangle(Point(IntToF32(point[1]), IntToF32(point[2])),
                           Size(<<5033165, -23>>, <<5033165, -23>>))
    IN  [frame |-> FrameFill(f, p, FromRgb8(color.r, color.g,
                                             IF color.a = <<1, 0>> THEN 255 ELSE 127)),
         ret |-> Ok]

\* (variant) the point's coordinates transposed
draw_pixel_transposed(f, point, color) ==
    LET p   == PathRectangle(Point(IntToF32(point[2]), IntToF32(point[1])),
                             Size(<<5033165, -23>>, <<5033165, -23>>))
        rgb == Rgb(color)
    IN  [frame |-> FrameFill(f, p, FromRgb8(rgb[1], rgb[2], rgb[3])), ret |-> Ok]

draw_pixel(f, point, color) ==
    LET p   == PathRectangle(Point(IntToF32(point[1]), IntToF32(point[2])),
                             Size(<<5033165, -23>>, <<5033165, -23>>))
        rgb == Rgb(color)
    IN  [frame |-> FrameFill(f, p, FromRgb8(rgb[1], rgb[2], rgb[3])), ret |-> Ok]

draw_line(f, from, to, style) ==
    LET p      == PathLine(Point(IntToF32(from[1]), IntToF32(from[2])),
                           Point(IntToF32(to[1]), IntToF32(to[2])))
        rgb    == Rgb(style.color)
        stroke == Stroke(FromRgb8(rgb[1], rgb[2], rgb[3]), IntToF32(style.stroke_width))
    IN  [frame |-> FrameStroke(f, p, stroke), ret |-> Ok]

draw_rect(f, upper_left, bottom_right, style, fill, checks) ==
    LET w == I32Sub(upper_left[1], bottom_right[1], checks)
        h == I32Sub(upper_left[2], bottom_right[2], checks)
    IN  IF w.panic \/ h.panic THEN [frame |-> f, ret |-> Panic]
        ELSE
        LET p     == PathRectangle(
                         Point(IntToF32(bottom_right[1]), IntToF32(bottom_right[2])),
                         Size(IntToF32(w.value), IntToF32(h.value)))
            rgb   == Rgb(style.color)
            color == FromRgb8(rgb[1], rgb[2], rgb[3])
        IN  IF fill THEN [frame |-> FrameFill(f, p, color), ret |-> Ok]
            ELSE [frame |-> FrameStroke(f, p, Stroke(color, IntToF32(style.stroke_width))),
                  ret |-> Ok]

draw_circle(f, center, radius, style, fill) ==
    LET p     == PathCircle(Point(IntToF32(center[1]), IntToF32(center[2])),
                            IntToF32(radius))
        rgb   == Rgb(style.color)
        color == FromRgb8(rgb[1], rgb[2], rgb[3])
    IN  IF fill THEN [frame |-> FrameFill(f, p, color), ret |-> Ok]
        ELSE [frame |-> FrameStroke(f, p, Stroke(color, IntToF32(style.stroke_width))),
              ret |-> Ok]

draw_text(f, text, style, pos) ==
    LET rgb == Rgb(style.color)
    IN  [frame |-> FrameFillText(f, Text(text, F64ToF32(style.font_size),
                                          Point(IntToF32(pos[1]), IntToF32(pos[2])),
                                          FromRgb8(rgb[1], rgb[2], rgb[3]))),
         ret |-> Ok]

---------------------------------------------------------------------------
(* Inputs of the calls *)

Red == [r |-> 255, g |-> 0, b |-> 0, a |-> <<1, 0>>]
Translucent == [r |-> 1, g |-> 2, b |-> 3, a |-> <<1, -1>>]

Colors == {Red, Translucent}

Styles == {[color |-> Red, stroke_width |-> 2],
           [color |-> Translucent, stroke_width |-> 16777217]}

TextStyles == {[color |-> Red, font_size |-> <<3, 2>>],
               [color |-> Translucent, font_size |-> <<16777217, -4>>]}

Points == {<<0, 0>>, <<10, 10>>, <<16777217, -1>>, <<MaxI32, MinI32>>}

LineStarts == {<<0, 0>>, <<16777217, -1>>}

LineEnds == {<<10, 10>>, <<MaxI32, MinI32>>}

UpperLefts == {<<0, 0>>, <<16777217, -1>>, <<MaxI32, MinI32>>}

BottomRights == {<<10, 10>>, <<MaxI32, MinI32>>}

Circles == {<<<<10, 10>>, 5>>, <<<<16777217, -1>>, 16777217>>}

TextPositions == {<<10, 10>>, <<16777217, -1>>}

\* the frames a session may be handed: 480 x 640, and 100.5 high, 0.75 wide
Surfaces == {[height |-> <<15, 5>>, width |-> <<5, 7>>],
             [height |-> <<201, -1>>, width |-> <<3, -2>>]}

---------------------------------------------------------------------------
(* The session: the charting library calls the adapter, one call at a time *)

Init ==
    /\ frame \in {[height |-> s.height, width |-> s.width, ops |-> <<>>] : s \in Surfaces}
    /\ overflow_checks \in BOOLEAN
    /\ calls = <<>>
    /\ panicked = FALSE

CanCall == ~panicked /\ Len(calls) < MaxCalls

\* the step of one call: the frame the method leaves, and the log of the call
Step(op, args, out) ==
    /\ frame' = out.frame
    /\ calls' = Append(calls, [op |-> op, args |-> args, ret |-> out.ret,
                               before |-> Len(frame.ops),
                               after |-> Len(out.frame.ops)])
    /\ panicked' = (out.ret = Panic)
    /\ UNCHANGED overflow_checks

GetSize ==
    /\ CanCall
    /\ Step("get_size", [none |-> TRUE], get_size(frame))

EnsurePrepared ==
    /\ CanCall
    /\ Step("ensure_prepared", [none |-> TRUE], ensure_prepared(frame))

Present ==
    /\ CanCall
    /\ Step("present", [none |-> TRUE], present(frame))

DrawPixel ==
    /\ CanCall
    /\ \E point \in Points, color \in Colors :
          Step("draw_pixel", [point |-> point, color |-> color],
               draw_pixel(frame, point, color))

DrawLine ==
    /\ CanCall
    /\ \E from \in LineStarts, to \in LineEnds, style \in Styles :
          Step("draw_line", [from |-> from, to |-> to, style |-> style],
               draw_line(frame, from, to, style))

DrawRect ==
    /\ CanCall
    /\ \E upper_left \in UpperLefts, bottom_right \in BottomRights,
          style \in Styles, fill \in BOOLEAN :
          Step("draw_rect",
               [upper_left |-> upper_left, bottom_right |-> bottom_right,
                style |-> style, fill |-> fill],
               draw_rect(frame, upper_left, bottom_right, style, fill, overflow_checks))

DrawCircle ==
    /\ CanCall
    /\ \E c \in Circles, style \in Styles, fill \in BOOLEAN :
          Step("draw_circle",
               [center |-> c[1], radius |-> c[2], style |-> style, fill |-> fill],
               draw_circle(frame, c[1], c[2], style, fill))

DrawText ==
    /\ CanCall
    /\ \E style \in TextStyles, pos \in TextPositions :
          Step("draw_text", [text |-> "a", style |-> style, pos |-> pos],
               draw_text(frame, "a", style, pos))

Next ==
    \/ GetSize
    \/ EnsurePrepared
    \/ Present
    \/ DrawPixel
    \/ DrawLine
    \/ DrawRect
    \/ DrawCircle
    \/ DrawText

Spec == Init /\ [][Next]_vars

---------------------------------------------------------------------------
(* Vocabulary of the properties *)

CallIds == 1..Len(calls)

DrawOps == {"draw_pixel", "draw_line", "draw_rect", "draw_circle", "draw_text"}

\* the call issued exactly one host operation
IssuedOne(c) == c.after = c.before + 1 /\ c.after <= Len(frame.ops)

\* the host operation a call issued (when it issued one)
HostOp(c) == frame.ops[c.after]

\* an integer as an f32 value that is exactly that integer
Exactly(n) == Canon(n, 0)

\* the colour a draw call was given, and the colour of a host operation
InputColor(c) == IF c.op = "draw_pixel" THEN c.args.color ELSE c.args.style.color

HostColor(o) ==
    IF o.kind = "fill" THEN o.color
    ELSE IF o.kind = "stroke" THEN o.stroke.color
    ELSE o.text.color

\* the 8-bit channel a host colour channel stands for: the c with c / 255 = f
UnitValues == {U8ToUnit[c] : c \in 0..255}
UnitToU8 == [f \in UnitValues |-> CHOOSE c \in 0..255 : U8ToUnit[c] = f]
ChannelsDistinct == \A c, d \in 0..255 : U8ToUnit[c] = U8ToUnit[d] => c = d
Channel8(f) == IF f \in UnitValues THEN UnitToU8[f] ELSE -1

\* n is the f32 value x with its fraction cut off
IsTruncationOf(n, x) ==
    IF x[2] >= 0 THEN n = x[1] * Pow2(x[2])
    ELSE n * Pow2(-x[2]) <= x[1] /\ x[1] < (n + 1) * Pow2(-x[2])

\* the integer n lies in the interval [lo, lo + sz] of the reals; lo is an
\* integer-valued f32, sz a non-negative f32
InInterval(n, lo, sz) ==
    /\ (n \div Pow2(lo[2])) >= lo[1]
    /\ LET floorSz == IF sz[2] >= 0 THEN sz[1] * Pow2(sz[2]) ELSE sz[1] \div Pow2(-sz[2])
       IN  n - lo[1] * Pow2(lo[2]) <= floorSz

---------------------------------------------------------------------------
(* C2 *)

\* C2: get_size returns (height, width), in that order: the first component
\* is the surface's height and the second its width, each as the u32 pixel
\* extent of the f32 value (fraction cut off), after any prior calls.
C2_GetSizeHeightFirst ==
    \A i \in CallIds :
        calls[i].op = "get_size" =>
            /\ calls[i].ret.tag = "size"
            /\ IsTruncationOf(calls[i].ret.value[1], frame.height)
            /\ IsTruncationOf(calls[i].ret.value[2], frame.width)

C2_Witness ==
    \E i \in CallIds :
        /\ i > 1
        /\ calls[i].op = "get_size"
        /\ calls[i].before > 0
        /\ calls[i].ret.value = <<100, 0>>

---------------------------------------------------------------------------
(* C1 *)

\* C1: every draw_rect call hands the host exactly one rectangle path whose
\* origin is bottom_right and whose size is upper_left - bottom_right in each
\* component, corners neither swapped nor normalised.
C1_RectIsLiteralDifference ==
    \A i \in CallIds :
        calls[i].op = "draw_rect" =>
            LET a == calls[i].args IN
            /\ IssuedOne(calls[i])
            /\ HostOp(calls[i]).path.shape = "rectangle"
            /\ HostOp(calls[i]).path.origin =
                   Point(IntToF32(a.bottom_right[1]), IntToF32(a.bottom_right[2]))
            /\ ~SubOverflows(a.upper_left[1], a.bottom_right[1])
            /\ ~SubOverflows(a.upper_left[2], a.bottom_right[2])
            /\ HostOp(calls[i]).path.size =
                   Size(IntToF32(a.upper_left[1] - a.bottom_right[1]),
                        IntToF32(a.upper_left[2] - a.bottom_right[2]))

---------------------------------------------------------------------------
(* C3 *)

\* C3: every adapter operation that returns a result returns success, for
\* every input and after every sequence of prior calls.
C3_EveryCallSucceeds ==
    \A i \in CallIds : calls[i].op # "get_size" => calls[i].ret = Ok

---------------------------------------------------------------------------
(* C4 *)

NoOpStep ==
    /\ Len(calls') = Len(calls) + 1
    /\ calls'[Len(calls')].op \in {"get_size", "ensure_prepared", "present"}

\* C4: a step of get_size, ensure_prepared or present issues no host call and
\* leaves the frame, the recorded drawing operations included, as it was.
C4_NoOpsLeaveFrame == [][NoOpStep => frame' = frame]_vars

C4_Witness ==
    /\ Len(frame.ops) > 0
    /\ \E i \in CallIds :
          /\ calls[i].op \in {"ensure_prepared", "present", "get_size"}
          /\ calls[i].before = Len(frame.ops)
          /\ calls[i].after = Len(frame.ops)

---------------------------------------------------------------------------
(* C5 *)

\* C5: the colour of the host operation a draw call issues has exactly the
\* call's 8-bit channels (r, g, b), and is opaque whatever the call's alpha.
C5_ColorRoundTrip ==
    /\ ChannelsDistinct
    /\ \A i \in CallIds :
          (calls[i].op \in DrawOps /\ IssuedOne(calls[i])) =>
              LET h == HostColor(HostOp(calls[i]))
                  c == InputColor(calls[i])
              IN  /\ <<Channel8(h.r), Channel8(h.g), Channel8(h.b)>> = <<c.r, c.g, c.b>>
                  /\ h.a = Exactly(1)

C5_Witness ==
    \E i \in CallIds :
        /\ calls[i].op = "draw_text"
        /\ IssuedOne(calls[i])
        /\ InputColor(calls[i]) = Translucent
        /\ Channel8(HostColor(HostOp(calls[i])).b) = 3

---------------------------------------------------------------------------
(* C6 *)

IsStrokeCall(c) ==
    \/ c.op = "draw_line"
    \/ c.op \in {"draw_rect", "draw_circle"} /\ ~c.args.fill

\* C6: the stroke handed to the host by draw_line, and by draw_rect and
\* draw_circle with fill = false, has the style's stroke width as an f32
\* (the width itself up to 2^24, the nearest f32 above), cap butt, join miter.
C6_StrokeOfStyle ==
    \A i \in CallIds :
        (IsStrokeCall(calls[i]) /\ calls[i].ret = Ok) =>
            LET w == calls[i].args.style.stroke_width IN
            /\ IssuedOne(calls[i])
            /\ HostOp(calls[i]).kind = "stroke"
            /\ HostOp(calls[i]).stroke.width = IntToF32(w)
            /\ (w <= Pow2(F32Digits) => HostOp(calls[i]).stroke.width = Exactly(w))
            /\ HostOp(calls[i]).stroke.line_cap = "Butt"
            /\ HostOp(calls[i]).stroke.line_join = "Miter"

C6_Witness ==
    \E i, j \in CallIds :
        /\ calls[i].op = "draw_rect" /\ ~calls[i].args.fill
        /\ calls[i].args.style.stroke_width = 2
        /\ IssuedOne(calls[i])
        /\ HostOp(calls[i]).stroke.width = Exactly(2)
        /\ calls[j].op = "draw_line"
        /\ calls[j].args.style.stroke_width = 16777217

---------------------------------------------------------------------------
(* C7 *)

\* C7: for draw_rect and draw_circle the fill flag alone selects the host
\* operation: fill = true gives exactly one fill of the path with the style's
\* colour and no stroke, fill = false exactly one stroke and no fill.
C7_FillFlagSelects ==
    \A i \in CallIds :
        calls[i].op \in {"draw_rect", "draw_circle"} =>
            /\ IssuedOne(calls[i])
            /\ HostOp(calls[i]).kind = (IF calls[i].args.fill THEN "fill" ELSE "stroke")

\* the scenario of C7: a filled red circle at (10, 10), radius 5
C7_CircleScenario ==
    \A i \in CallIds :
        (/\ calls[i].op = "draw_circle"
         /\ calls[i].args.center = <<10, 10>> /\ calls[i].args.radius = 5
         /\ calls[i].args.style.color = Red /\ calls[i].args.fill) =>
            /\ IssuedOne(calls[i])
            /\ HostOp(calls[i]) =
                   [kind |-> "fill",
                    path |-> PathCircle(Point(Exactly(10), Exactly(10)), Exactly(5)),
                    color |-> [r |-> Exactly(1), g |-> Exactly(0), b |-> Exactly(0),
                               a |-> Exactly(1)]]

---------------------------------------------------------------------------
(* C8 *)

PixelFill(c) ==
    /\ IssuedOne(c)
    /\ HostOp(c).kind = "fill"
    /\ HostOp(c).path.shape = "rectangle"
    /\ HostOp(c).path.origin = Point(IntToF32(c.args.point[1]), IntToF32(c.args.point[2]))
    /\ HostOp(c).path.size = Size(<<5033165, -23>>, <<5033165, -23>>)
    /\ <<Channel8(HostOp(c).color.r), Channel8(HostOp(c).color.g),
         Channel8(HostOp(c).color.b)>> = <<c.args.color.r, c.args.color.g, c.args.color.b>>

BoxContainsPoint(c) ==
    /\ InInterval(c.args.point[1], HostOp(c).path.origin.x, HostOp(c).path.size.width)
    /\ InInterval(c.args.point[2], HostOp(c).path.origin.y, HostOp(c).path.size.height)

ExactInF32(n) == -Pow2(F32Digits) <= n /\ n <= Pow2(F32Digits)

\* C8 as stated: for every pixel coordinate, draw_pixel issues one fill of a
\* 0.6 by 0.6 rectangle with its corner at (x, y), whose bounding box contains
\* (x, y), in the input colour.
C8_PixelBoxContainsEveryPoint ==
    \A i \in CallIds :
        calls[i].op = "draw_pixel" => PixelFill(calls[i]) /\ BoxContainsPoint(calls[i])

\* C8 amended: draw_pixel issues one fill of a 0.6 by 0.6 rectangle with its
\* corner at (x, y) as f32, in the input colour; the bounding box contains
\* (x, y) whenever |x| and |y| are at most 2^24.
C8_PixelBoxContainsExactPoint ==
    \A i \in CallIds :
        calls[i].op = "draw_pixel" =>
            /\ PixelFill(calls[i])
            /\ (ExactInF32(calls[i].args.point[1]) /\ ExactInF32(calls[i].args.point[2]))
                   => (/\ HostOp(calls[i]).path.origin =
                              Point(Exactly(calls[i].args.point[1]),
                                    Exactly(calls[i].args.point[2]))
                       /\ BoxContainsPoint(calls[i]))

C8_Witness ==
    \E i, j \in CallIds :
        /\ calls[i].op = "draw_pixel" /\ calls[i].args.point = <<10, 10>>
        /\ BoxContainsPoint(calls[i])
        /\ calls[j].op = "draw_pixel" /\ calls[j].args.point = <<16777217, -1>>

---------------------------------------------------------------------------
(* C9 *)

EmptyFrame == [height |-> frame.height, width |-> frame.width, ops |-> <<>>]

\* what a draw call does to a frame that has received nothing
Alone(c) ==
    LET a == c.args IN
    IF c.op = "draw_pixel" THEN draw_pixel(EmptyFrame, a.point, a.color)
    ELSE IF c.op = "draw_line" THEN draw_line(EmptyFrame, a.from, a.to, a.style)
    ELSE IF c.op = "draw_rect"
         THEN draw_rect(EmptyFrame, a.upper_left, a.bottom_right, a.style, a.fill,
                        overflow_checks)
    ELSE IF c.op = "draw_circle"
         THEN draw_circle(EmptyFrame, a.center, a.radius, a.style, a.fill)
    ELSE draw_text(EmptyFrame, a.text, a.style, a.pos)

DrawCallIds == {i \in CallIds : calls[i].op \in DrawOps}

\* C9: the surface has received exactly one host operation per draw call, in
\* the order of the calls, each the operation its call's arguments alone give.
C9_OneOperationPerDrawCall ==
    /\ Len(frame.ops) = Cardinality(DrawCallIds)
    /\ \A i \in DrawCallIds :
          /\ calls[i].after = Cardinality({j \in DrawCallIds : j <= i})
          /\ IssuedOne(calls[i])
          /\ Len(Alone(calls[i]).frame.ops) = 1
          /\ HostOp(calls[i]) = Alone(calls[i]).frame.ops[1]

---------------------------------------------------------------------------
(* C10 *)

\* C10: draw_rect completes with success for every pair of i32 corners, the
\* subtraction never leaves the i32 range, and the size handed to the host is
\* the exact difference upper_left - bottom_right in each component.
C10_RectSubtractionExact ==
    \A i \in CallIds :
        calls[i].op = "draw_rect" =>
            LET a == calls[i].args IN
            /\ calls[i].ret = Ok
            /\ ~SubOverflows(a.upper_left[1], a.bottom_right[1])
            /\ ~SubOverflows(a.upper_left[2], a.bottom_right[2])
            /\ IssuedOne(calls[i])
            /\ HostOp(calls[i]).path.size =
                   Size(IntToF32(a.upper_left[1] - a.bottom_right[1]),
                        IntToF32(a.upper_left[2] - a.bottom_right[2]))

====
